---- MODULE Spec2Model ----
(***************************************************************************)
(* Model of weighted_euclidean (src/oc_wdtw.cpp): the banded, weighted DTW *)
(* accumulated-cost kernel.  One call is stepped through its two loops;    *)
(* every execution of the inner loop body is one action.                   *)
(*                                                                         *)
(* Arithmetic abstraction: float values are modelled on the integer grid;  *)
(* sqrt rounds down to the grid (exact whenever the operand is a perfect   *)
(* square, which is always the case for n <= 1).  The C++ int keeps its    *)
(* 32-bit width: i + window is the only expression of the kernel that can  *)
(* leave the int range, and signed overflow is undefined behaviour, so the *)
(* model carries both outcomes a build produces (see Upper).               *)
(***************************************************************************)
EXTENDS Integers, Sequences, FiniteSets

VARIABLES
  m, n, window,   \* the int arguments
  build,          \* which outcome the build gives the overflowing i + window
  X1, X2,         \* the m x n feature buffers
  weights,        \* the length-m weight buffer
  costs0,         \* costs_out as the caller handed it over
  costs,          \* costs_out now
  i, j, cost,     \* the locals of the loops
  pc,             \* position in the function
  written,        \* history: the cells stored so far, in order
  touched         \* history: every element read or written so far

vars == <<m, n, window, build, X1, X2, weights, costs0, costs, i, j, cost, pc, written, touched>>

params == <<m, n, window, build, X1, X2, weights, costs0>>

(* ------------------------------ bounds --------------------------------- *)
MaxM == 3
MaxN == 1
MaxWindow == 3
Sentinel == 1000

(* ------------------------- program constants --------------------------- *)
INT_MAX == 2147483647
INT_MIN == -INT_MAX - 1

(* ------------------------------ helpers -------------------------------- *)
Min(a, b) == IF b < a THEN b ELSE a
Max(a, b) == IF a < b THEN b ELSE a

\* float sqrt on the integer grid: the largest r with r*r <= s
Sqrt(s) == CHOOSE r \in 0..s : r * r <= s /\ (r + 1) * (r + 1) > s

\* Eigen::Map<RowMajor>: element (r, c) of a buffer viewed with `cols` columns
At(buf, cols, r, c) == buf[r * cols + c]

\* X.row(r) of an m x n row-major map
Row(buf, r) == [d \in 0..(n - 1) |-> buf[r * n + d]]

RECURSIVE SumSq(_, _, _)
SumSq(xi, xj, d) ==
  IF d = 0 THEN 0
  ELSE SumSq(xi, xj, d - 1) + (xi[d - 1] - xj[d - 1]) * (xi[d - 1] - xj[d - 1])

RECURSIVE SumDiff(_, _, _)
SumDiff(xi, xj, d) ==
  IF d = 0 THEN 0 ELSE SumDiff(xi, xj, d - 1) + (xi[d - 1] - xj[d - 1])

\* slip: the differences are summed as they are, neither squared nor rooted
LocalCostSigned(A, B, Wt, r, c) ==
  At(Wt, 1, r, 0) * At(Wt, 1, c, 0) * SumDiff(Row(A, r), Row(B, c), n)

\* line 31: wi * wj * sqrt(((xi - xj) * (xi - xj)).sum())
LocalCost(A, B, Wt, r, c) ==
  At(Wt, 1, r, 0) * At(Wt, 1, c, 0) * Sqrt(SumSq(Row(A, r), Row(B, c), n))

\* does the int expression r + w leave the int range?
Overflows(r, w) == w > INT_MAX - r

\* the value r + w wraps to in two's complement when it overflows
Wrapped(r, w) == INT_MIN + ((r - 1) - (INT_MAX - w))

\* slip: the band is allowed to start at column 0
LowerFromZero(r, w) == Max(0, r - w)

\* slip: the lower edge of the band is one column too far right
LowerTight(r, w) == Max(1, r - w + 1)

\* line 24, lower bound of the inner loop for window w
Lower(r, w) == Max(1, r - w)


\* slip: a band closed on the right, j <= i + window
UpperClosed(r, w, b) ==
  IF Overflows(r + 1, w)
    THEN (IF b = "wrap" THEN Min(m, Wrapped(r + 1, w)) ELSE m)
    ELSE Min(m, r + w + 1)

\* line 24, upper bound of the inner loop for window w.  When r + w overflows
\* the behaviour is undefined: a build either wraps the sum (a negative bound,
\* the row is skipped) or folds the comparison as if the sum were exact.
Upper(r, w, b) ==
  IF Overflows(r, w)
    THEN (IF b = "wrap" THEN Min(m, Wrapped(r, w)) ELSE m)
    ELSE Min(m, r + w)

\* slip: the diagonal predecessor is left out of the minimum
NewCostNoDiag(buf, lc, r, c) ==
  lc + Min(At(buf, m, r, c - 1), At(buf, m, r - 1, c))

\* slip: the minimum is subtracted instead of added
NewCostMinus(buf, lc, r, c) ==
  lc - Min(At(buf, m, r, c - 1), Min(At(buf, m, r - 1, c), At(buf, m, r - 1, c - 1)))

\* lines 32-33: the value stored into costs(r, c)
NewCost(buf, lc, r, c) ==
  lc + Min(At(buf, m, r, c - 1), Min(At(buf, m, r - 1, c), At(buf, m, r - 1, c - 1)))

\* every element the loop body at (r, c) reads or writes, lines 25-33
Accesses(r, c) ==
  { <<"X1", r, 0>>, <<"X2", c, 0>>, <<"W", r, 0>>, <<"W", c, 0>>,
    <<"C", r, c>>, <<"C", r, c - 1>>, <<"C", r - 1, c>>, <<"C", r - 1, c - 1>> }

\* the extents the maps were declared with, lines 13-17
InExtents(a) ==
  /\ a[2] \in 0..(m - 1)
  /\ a[3] \in (IF a[1] = "C" THEN 0..(m - 1) ELSE {0})

(* ------------------------------ inputs --------------------------------- *)
Builds == {"wrap", "exact"}
Windows == (0..MaxWindow) \cup {INT_MAX - 1, INT_MAX}
CellVals == {-1, 0, Sentinel}
SeqKinds == {"zeros", "ramp", "rev"}
WeightKinds == {"ones", "alt", "ramp"}

\* an mm x nn row-major feature buffer whose row r holds Elem(kind, r) in every column
Elem(kind, mm, r) ==
  CASE kind = "zeros" -> 0
    [] kind = "ramp" -> r
    [] kind = "rev" -> mm - 1 - r

FeatureBuf(kind, mm, nn) == [k \in 0..(mm * nn - 1) |-> Elem(kind, mm, k \div nn)]

WeightBuf(kind, mm) ==
  [k \in 0..(mm - 1) |->
     CASE kind = "ones" -> 1
       [] kind = "alt" -> (IF k % 2 = 1 THEN -1 ELSE 1)
       [] kind = "ramp" -> k + 1]

\* caller-initialised cost buffer: origin, the rest of row 0 / column 0, interior
CostBuf(mm, o, bd, inr) ==
  [k \in 0..(mm * mm - 1) |->
     IF k = 0 THEN o
     ELSE IF k \div mm = 0 \/ k % mm = 0 THEN bd
     ELSE inr]

(* ---------------------------- state machine ---------------------------- *)
Init ==
  /\ m \in 1..MaxM
  /\ n \in 0..MaxN
  /\ window \in Windows
  /\ build \in Builds
  /\ \E k1 \in SeqKinds, k2 \in SeqKinds :
       /\ X1 = FeatureBuf(k1, m, n)
       /\ X2 = FeatureBuf(k2, m, n)
  /\ \E kw \in WeightKinds : weights = WeightBuf(kw, m)
  /\ \E o \in CellVals, bd \in CellVals, inr \in CellVals :
       costs0 = CostBuf(m, o, bd, inr)
  /\ costs = costs0
  /\ i = 0
  /\ j = 0
  /\ cost = 0
  /\ pc = "entry"
  /\ written = << >>
  /\ touched = {}

\* lines 13-23: the maps are set up and the outer loop starts at i = 1
Enter ==
  /\ pc = "entry"
  /\ i' = 1
  /\ pc' = "outer"
  /\ UNCHANGED <<params, costs, j, cost, written, touched>>

\* line 23 test true, line 24 initialisation
RowBegin ==
  /\ pc = "outer"
  /\ i < m
  /\ j' = Lower(i, window)
  /\ pc' = "inner"
  /\ UNCHANGED <<params, costs, i, cost, written, touched>>

\* line 24 test true, lines 25-33, ++j.  An access outside the extents of a
\* map is undefined behaviour: the call is recorded as faulted and stops.
Cell ==
  /\ pc = "inner"
  /\ j < Upper(i, window, build)
  /\ touched' = touched \cup Accesses(i, j)
  /\ IF \A a \in Accesses(i, j) : InExtents(a)
       THEN /\ cost' = LocalCost(X1, X2, weights, i, j)
            /\ costs' = [costs EXCEPT ![i * m + j] = NewCost(costs, cost', i, j)]
            /\ written' = Append(written, <<i, j>>)
            /\ j' = j + 1
            /\ UNCHANGED <<params, i, pc>>
       ELSE /\ pc' = "fault"
            /\ UNCHANGED <<params, costs, i, j, cost, written>>

\* line 24 test false, ++i
RowEnd ==
  /\ pc = "inner"
  /\ ~(j < Upper(i, window, build))
  /\ i' = i + 1
  /\ pc' = "outer"
  /\ UNCHANGED <<params, costs, j, cost, written, touched>>

\* line 23 test false, line 36
Return ==
  /\ pc = "outer"
  /\ ~(i < m)
  /\ pc' = "done"
  /\ UNCHANGED <<params, costs, i, j, cost, written, touched>>

Next == Enter \/ RowBegin \/ Cell \/ RowEnd \/ Return

Spec == Init /\ [][Next]_vars

\* the variables range over the expected shapes
TypeOK ==
  /\ m \in 1..MaxM /\ n \in 0..MaxN /\ window \in Windows /\ build \in Builds
  /\ DOMAIN costs = 0..(m * m - 1) /\ DOMAIN costs0 = DOMAIN costs
  /\ DOMAIN X1 = 0..(m * n - 1) /\ DOMAIN X2 = DOMAIN X1
  /\ DOMAIN weights = 0..(m - 1)
  /\ pc \in {"entry", "outer", "inner", "done", "fault"}

(* ------------------------- the call as a function ---------------------- *)
\* lines 24-34 for one row, from column c on
RECURSIVE FillRow(_, _, _, _, _)
FillRow(buf, r, c, w, b) ==
  IF c < Upper(r, w, b)
    THEN FillRow([buf EXCEPT ![r * m + c] =
                    NewCost(buf, LocalCost(X1, X2, weights, r, c), r, c)],
                 r, c + 1, w, b)
    ELSE buf

\* lines 23-35 from row r on
RECURSIVE FillFrom(_, _, _, _)
FillFrom(buf, r, w, b) ==
  IF r < m THEN FillFrom(FillRow(buf, r, Lower(r, w), w, b), r + 1, w, b) ELSE buf

\* the content of costs_out after a call with window w on the buffer buf
weighted_euclidean(buf, w, b) == FillFrom(buf, 1, w, b)

\* the cells such a call stores
WrittenBy(w, b) ==
  { rc \in (1..(m - 1)) \X (1..(m - 1)) :
      Lower(rc[1], w) <= rc[2] /\ rc[2] < Upper(rc[1], w, b) }

(* --------------------------- vocabulary of the claims ------------------ *)
Cells == (0..(m - 1)) \X (0..(m - 1))

\* the evaluated band as the specification states it:
\* 1 <= r < m and max(1, r - w) <= c < min(m, r + w)
InBand(r, c, w) ==
  /\ 1 <= r /\ r < m
  /\ Max(1, r - w) <= c /\ c < m /\ c - r < w

Val(buf, rc) == At(buf, m, rc[1], rc[2])

WrittenSet == { written[k] : k \in 1..Len(written) }

Preds(r, c) == { <<r, c - 1>>, <<r - 1, c>>, <<r - 1, c - 1>> }

MinOf(S) == CHOOSE v \in S : \A u \in S : v <= u

MaxOf(S) == CHOOSE v \in S : \A u \in S : u <= v

Abs(a) == IF a < 0 THEN -a ELSE a

\* the stepped call and the function agree
StepsMatchFunction ==
  pc = "done" => /\ costs = weighted_euclidean(costs0, window, build)
                 /\ WrittenSet = WrittenBy(window, build)

(* ------------------------------- C1 ------------------------------------ *)
\* C1: a call leaves every cell of costs unchanged that lies in row 0, in
\* column 0 or outside the band [max(1, i - window), min(m, i + window)); with
\* m = 1 or window = 0 the whole matrix stays as it was; X1, X2 and the
\* weights are never written.
C1_Frame ==
  /\ [](\A rc \in Cells :
          (rc[1] = 0 \/ rc[2] = 0 \/ ~InBand(rc[1], rc[2], window))
            => Val(costs, rc) = Val(costs0, rc))
  /\ []((m = 1 \/ window = 0) => costs = costs0)
  /\ [][X1' = X1 /\ X2' = X2 /\ weights' = weights]_vars

\* a finished call that changed the matrix although an interior cell lies
\* outside the band
C1_Witness ==
  /\ pc = "done"
  /\ costs # costs0
  /\ \E rc \in Cells : rc[1] >= 1 /\ rc[2] >= 1 /\ ~InBand(rc[1], rc[2], window)

(* ------------------------------- C3 ------------------------------------ *)
\* C3: every index the call uses is inside the declared extents: rows and
\* columns of costs in [0, m), indices of the weights in [0, m), rows of X1
\* and X2 in [0, m), the predecessor reads at the band edges included.
C3_InBounds == \A a \in touched : InExtents(a)

\* a finished call that read the origin, the last cell and an interior
\* predecessor outside the band
C3_Witness ==
  /\ pc = "done"
  /\ <<"C", 0, 0>> \in touched
  /\ <<"C", m - 1, m - 1>> \in touched
  /\ \E a \in touched :
       a[1] = "C" /\ a[2] >= 1 /\ a[3] >= 1 /\ ~InBand(a[2], a[3], window)

(* ------------------------------- C4 ------------------------------------ *)
\* C4 as stated: every cell the call writes satisfies |i - j| < window.
C4_AbsBand == \A rc \in WrittenSet : Abs(rc[1] - rc[2]) < window

\* C4 amended: every cell the call writes satisfies -window <= j - i < window;
\* the band is closed below the diagonal and open above it.
C4_HalfOpenBand ==
  \A rc \in WrittenSet : rc[1] - rc[2] <= window /\ rc[2] - rc[1] < window

\* a finished call that wrote a cell exactly window columns left of the diagonal
C4_Witness ==
  /\ pc = "done"
  /\ \E rc \in WrittenSet : rc[1] - rc[2] = window

(* ------------------------------- C10 ----------------------------------- *)
LexLess(a, b) == a[1] < b[1] \/ (a[1] = b[1] /\ a[2] < b[2])

\* C10: the cells are written row by row and left to right, each at most
\* once; when a cell is written the band cells of all earlier rows and its
\* predecessors inside the band have been written before; a store changes
\* exactly the cell that the history records; at the end every cell of the
\* band is written, but for the rows a wrapped i + window skips.
C10_Order ==
  /\ [](pc = "done" =>
          \A rc \in Cells :
            (InBand(rc[1], rc[2], window)
               /\ ~(Overflows(rc[1], window) /\ build = "wrap"))
              => rc \in WrittenSet)
  /\ [](\A k \in 1..Len(written) :
          /\ \A l \in 1..Len(written) : k < l => LexLess(written[k], written[l])
          /\ \A p \in Preds(written[k][1], written[k][2]) :
                InBand(p[1], p[2], window)
                  => \E l \in 1..(k - 1) : written[l] = p
          /\ \A rc \in Cells :
                (InBand(rc[1], rc[2], window) /\ rc[1] < written[k][1])
                  => \E l \in 1..(k - 1) : written[l] = rc)
  /\ [][\A k \in DOMAIN costs :
          costs'[k] # costs[k]
            => written' = Append(written, <<k \div m, k % m>>)]_vars

\* a finished call that wrote at least two rows of the band
C10_Witness ==
  /\ pc = "done"
  /\ \E a \in WrittenSet, b \in WrittenSet :
       a[1] < b[1] /\ a \in Preds(b[1], b[2]) /\ <<b[1], b[2] - 1>> \in WrittenSet

(* ------------------------------- C2 ------------------------------------ *)
Local(rc) == LocalCost(X1, X2, weights, rc[1], rc[2])

\* the costs of all paths of right / down / diagonal steps that start in a
\* cell outside the band of window w, then stay inside it and end at (r, c):
\* the start cell's caller-set value plus the local costs along the path
RECURSIVE PathCosts(_, _, _)
PathCosts(r, c, w) ==
  UNION { IF InBand(p[1], p[2], w)
            THEN { v + Local(<<r, c>>) : v \in PathCosts(p[1], p[2], w) }
            ELSE { Val(costs0, p) + Local(<<r, c>>) }
          : p \in Preds(r, c) }

Recurrence(rc) ==
  /\ Val(costs, rc) = Local(rc) + MinOf({ Val(costs, p) : p \in Preds(rc[1], rc[2]) })
  /\ Val(costs, rc) = MinOf(PathCosts(rc[1], rc[2], window))

\* C2: after the call every cell (i, j) of the band holds local_cost(i, j)
\* plus the minimum of the final values of its three predecessors, which is
\* the cheapest path into (i, j) from the caller-set cells.
C2_Recurrence ==
  pc = "done" => \A rc \in Cells : InBand(rc[1], rc[2], window) => Recurrence(rc)

\* the statement of C2 for the windows whose i + window stays inside int
C2_WithoutOverflow ==
  (pc = "done" /\ ~Overflows(m - 1, window))
    => \A rc \in Cells : InBand(rc[1], rc[2], window) => Recurrence(rc)

(* ------------------------------- C5 ------------------------------------ *)
UnwrittenNonNegative == \A rc \in Cells \ WrittenSet : Val(costs0, rc) >= 0

BandNonNegative ==
  \A rc \in Cells : InBand(rc[1], rc[2], window) => Val(costs, rc) >= 0

\* C5 as stated: for real-valued weights, if every cell the call does not
\* write starts non-negative, every cell of the band ends non-negative.
C5_NonNegative == (pc = "done" /\ UnwrittenNonNegative) => BandNonNegative

WeightProductsNonNegative ==
  \A rc \in Cells :
    InBand(rc[1], rc[2], window) => weights[rc[1]] * weights[rc[2]] >= 0

\* an upper limit of an accumulated cost: the largest caller-set value plus
\* the largest local cost on each of the at most 2m - 3 cells of a path
Ceiling ==
  MaxOf({ costs0[k] : k \in DOMAIN costs0 })
    + (2 * m) * MaxOf({ Local(rc) : rc \in (1..(m - 1)) \X (1..(m - 1)) } \cup {0})

\* C5 amended: if moreover W[i] * W[j] >= 0 for every cell (i, j) of the band
\* (all weights of one sign), every cell of the band ends non-negative and
\* below the ceiling of the bounded arithmetic.
C5_NonNegativeWeights ==
  (pc = "done" /\ UnwrittenNonNegative /\ WeightProductsNonNegative)
    => /\ BandNonNegative
       /\ \A rc \in Cells : InBand(rc[1], rc[2], window) => Val(costs, rc) <= Ceiling

\* a finished call under these preconditions that accumulated a positive cost
C5_Witness ==
  /\ pc = "done" /\ UnwrittenNonNegative /\ WeightProductsNonNegative
  /\ \E rc \in WrittenSet : Val(costs, rc) > 0 /\ Val(costs, rc) < Sentinel

(* ------------------------------- C8 ------------------------------------ *)
\* C8 as stated: with X1 and X2 swapped the local cost of every pair (i, j)
\* of the band is the same as before.
C8_SamePair ==
  \A rc \in WrittenSet :
    LocalCost(X1, X2, weights, rc[1], rc[2]) = LocalCost(X2, X1, weights, rc[1], rc[2])

\* C8 amended: the local cost of the pair (i, j) equals the local cost the
\* swapped call computes for the transposed pair (j, i); the two calls agree
\* at the same pair on the diagonal i = j.
C8_TransposedPair ==
  /\ \A rc \in WrittenSet :
       LocalCost(X1, X2, weights, rc[1], rc[2]) = LocalCost(X2, X1, weights, rc[2], rc[1])
  /\ written # << >> =>
       cost = LocalCost(X2, X1, weights, written[Len(written)][2], written[Len(written)][1])

\* the call computed a non-zero local cost off the diagonal where the swapped
\* call computes a different one for the same pair
C8_Witness ==
  \E rc \in WrittenSet :
    /\ rc[1] # rc[2]
    /\ Local(rc) # 0
    /\ Local(rc) # LocalCost(X2, X1, weights, rc[1], rc[2])

(* ------------------------------- C9 ------------------------------------ *)
ZeroDistanceInputs == X1 = X2 /\ \A k \in DOMAIN weights : weights[k] = 1

\* m = 3, n = 1, X1 = X2 = [0, 1, 2], W = [1, 1, 1], window = 3, C(0,0) = 0
\* and the other cells of row 0 and column 0 at the sentinel
Scenario ==
  /\ m = 3 /\ n = 1 /\ window = 3
  /\ X1 = [k \in 0..2 |-> k] /\ X2 = X1
  /\ weights = [k \in 0..2 |-> 1]
  /\ \A rc \in Cells :
       (rc[1] = 0 \/ rc[2] = 0)
         => Val(costs0, rc) = (IF rc = <<0, 0>> THEN 0 ELSE Sentinel)

DiagonalIsMinOfPreds(r) ==
  Val(costs, <<r, r>>) = MinOf({ Val(costs, p) : p \in Preds(r, r) })

\* C9 as stated, on the calls whose i + window stays inside int: with
\* X1 = X2 and unit weights, for every i in [1, m) the local cost at (i, i)
\* is 0 and C(i, i) ends as the minimum of the final values of its
\* predecessors; in the scenario C(1,1) = C(2,2) = 0.
C9_Diagonal ==
  /\ (pc = "done" /\ ZeroDistanceInputs /\ ~Overflows(m - 1, window))
       => \A r \in 1..(m - 1) : Local(<<r, r>>) = 0 /\ DiagonalIsMinOfPreds(r)
  /\ (pc = "done" /\ Scenario)
       => Val(costs, <<1, 1>>) = 0 /\ Val(costs, <<2, 2>>) = 0

\* C9 amended: the same for every i whose cell (i, i) the call writes (none
\* when window = 0).
C9_WrittenDiagonal ==
  /\ (pc = "done" /\ ZeroDistanceInputs)
       => \A r \in 1..(m - 1) :
            /\ Local(<<r, r>>) = 0
            /\ <<r, r>> \in WrittenSet => DiagonalIsMinOfPreds(r)
  /\ (pc = "done" /\ Scenario)
       => Val(costs, <<1, 1>>) = 0 /\ Val(costs, <<2, 2>>) = 0

\* the scenario, run to the end
C9_Witness == pc = "done" /\ Scenario /\ <<2, 2>> \in WrittenSet

(* ------------------------------- C6 ------------------------------------ *)
\* C6 as stated, on the calls whose i + window stays inside int: every cell
\* of the band of a smaller window w1 ends, under the larger window, at most
\* at the value it ends at under w1.
C6_Monotone ==
  (pc = "done" /\ ~Overflows(m - 1, window)) =>
    \A w1 \in Windows :
      w1 < window =>
        \A rc \in Cells :
          InBand(rc[1], rc[2], w1)
            => Val(costs, rc) <= Val(weighted_euclidean(costs0, w1, build), rc)

\* every cell this call wrote and the call with window w1 does not write
\* started at least as high as this call left it
NewCellsStartHigh(w1) ==
  \A rc \in WrittenSet \ WrittenBy(w1, build) : Val(costs0, rc) >= Val(costs, rc)

\* C6 amended: if every cell the call with the larger window writes and the
\* call with the smaller window w1 does not write starts at least as high as
\* the larger-window call leaves it, every cell both calls write ends under
\* the larger window at most at its value under w1.
C6_MonotoneOverSentinels ==
  pc = "done" =>
    \A w1 \in Windows :
      (w1 < window /\ NewCellsStartHigh(w1)) =>
        \A rc \in WrittenSet \cap WrittenBy(w1, build) :
          Val(costs, rc) <= Val(weighted_euclidean(costs0, w1, build), rc)

\* a finished call whose wider band lowered a cell of the narrower band
C6_Witness ==
  /\ pc = "done"
  /\ \E w1 \in Windows :
       /\ w1 < window /\ NewCellsStartHigh(w1)
       /\ WrittenSet \ WrittenBy(w1, build) # {}
       /\ \E rc \in WrittenSet \cap WrittenBy(w1, build) :
            Val(costs, rc) < Val(weighted_euclidean(costs0, w1, build), rc)

(* ------------------------------- C7 ------------------------------------ *)
Interior == (1..(m - 1)) \X (1..(m - 1))

\* C7: a call with any window >= m ends with the same matrix as a call with
\* window = m, and writes every cell (i, j) with 1 <= i < m and 1 <= j < m.
C7_Degenerate ==
  (pc = "done" /\ window >= m)
    => /\ costs = weighted_euclidean(costs0, m, build)
       /\ Interior \subseteq WrittenSet

\* the statement of C7 for the windows whose i + window stays inside int
C7_WithoutOverflow ==
  (pc = "done" /\ window >= m /\ ~Overflows(m - 1, window))
    => /\ costs = weighted_euclidean(costs0, m, build)
       /\ Interior \subseteq WrittenSet

====
